---- MODULE Spec2Model ----
(***************************************************************************)
(* A model of src/data-generation/convert_data.py: the conversion of a     *)
(* KanjiVG stroke-group tree into a nested record and a flat stroke list,  *)
(* the Unicode range classification, the single-file conversion with its   *)
(* exception handler, and the main loop that accumulates kanji_data,       *)
(* character_index and lookup_index.                                       *)
(*                                                                         *)
(* Three specifications share the module:                                  *)
(*   SpecConvert  one call of convert_svg_to_js_data on a drawn file       *)
(*   SpecRange    one call of get_unicode_range on a drawn code            *)
(*   SpecMain     one run of main() over a drawn directory listing         *)
(***************************************************************************)
EXTENDS Integers, Sequences, FiniteSets, TLC

VARIABLES
    \* ---- convert_svg_to_js_data (lines 18-44)
    cpc,              \* position inside convert_svg_to_js_data
    sfi,              \* the SvgFileInfo of the call (input)
    kanji,            \* local `kanji` (line 26)
    result,           \* the value returned to the caller
    \* ---- get_unicode_range (lines 108-127)
    rpc,              \* position inside get_unicode_range
    code,             \* the argument `code`, a sequence of characters
    range,            \* the tag returned
    \* ---- main (lines 129-223)
    pc,               \* position inside main
    svg_files,        \* the entries of svg_files the loop has taken so far
    kanji_data,       \* dict variant_key -> js_data (line 151)
    character_index,  \* dict character -> list of variant keys (line 152)
    individual_dir,   \* the files of data/individual: variant_key -> content
    lookup_index,     \* dict variant_key -> relative path (line 188)
    output_dir        \* the index files of data/: name -> content

vars == <<cpc, sfi, kanji, result, rpc, code, range,
          pc, svg_files, kanji_data, character_index, individual_dir,
          lookup_index, output_dir>>

convertVars == <<cpc, sfi, kanji, result>>
rangeVars   == <<rpc, code, range>>
mainVars    == <<pc, svg_files, kanji_data, character_index, individual_dir,
                 lookup_index, output_dir>>

(***************************************************************************)
(* Bounds of the model.                                                    *)
(***************************************************************************)
MaxNodes     == 4   \* nodes below the root in the trees of SpecConvert
MaxAttrNodes == 1   \* nodes below the root when the root's attributes vary
MaxFiles     == 3   \* files in the directory listing of SpecMain
MaxPlane     == 16  \* highest value of the two leading hex digits in SpecRange

(***************************************************************************)
(* Python values.  A value carries its type, so that None, "" and 0 are    *)
(* three different values that are all falsy.                              *)
(***************************************************************************)
None == [t |-> "None"]

PyStr(s) == [t |-> "str", v |-> s]

PyInt(n) == [t |-> "int", v |-> n]

\* bool(x) for the values above
Truthy(x) ==
    CASE x.t = "None" -> FALSE
      [] x.t = "str"  -> x.v # ""
      [] x.t = "int"  -> x.v # 0
      [] OTHER        -> TRUE

\* x or y
PyOr(x, y) == IF Truthy(x) THEN x ELSE y

\* d[k] = v on a dict
DictSet(d, k, v) == [x \in DOMAIN d \cup {k} |-> IF x = k THEN v ELSE d[x]]

\* the empty dict {}
EmptyDict == [x \in {} |-> None]

(***************************************************************************)
(* Source nodes.  A StrokeGr has the attribute `childs`, a Stroke has not:  *)
(* the code tells them apart with hasattr(child, 'childs').                *)
(***************************************************************************)
HasChilds(child) == "childs" \in DOMAIN child

\* child.stype, child.svg or child.numberPos raises AttributeError on an
\* object that is neither a StrokeGr nor a complete Stroke
StrokeAttrs == {"stype", "svg", "numberPos"}

RECURSIVE Raises(_)
Raises(group) ==
    \E n \in 1..Len(group.childs) :
        LET child == group.childs[n]
        IN  IF HasChilds(child) THEN Raises(child)
            ELSE ~(StrokeAttrs \subseteq DOMAIN child)

(***************************************************************************)
(* convert_stroke_group (lines 46-89)                                      *)
(***************************************************************************)
\* lines 48-52: the dict every group starts from
NewGroupDict(group) ==
    [id |-> PyOr(group.ID, PyStr("")), groups |-> <<>>, strokes |-> <<>>]

\* lines 55-76: the attributes in the order the code copies them, each with
\* the test that guards the copy: `if group.x:` or `if group.x is not None:`
GroupAttrs ==
    << <<"element", "truthy">>,    <<"original", "truthy">>,
       <<"part", "notNone">>,      <<"number", "notNone">>,
       <<"variant", "truthy">>,    <<"partial", "truthy">>,
       <<"tradForm", "truthy">>,   <<"radicalForm", "truthy">>,
       <<"position", "truthy">>,   <<"radical", "truthy">>,
       <<"phon", "truthy">> >>

\* a mutant of AttrGuard: `is not None` written as a truthiness test
AttrGuardTruthyOnly(test, value) == Truthy(value)

\* the guard of one copy
AttrGuard(test, value) ==
    IF test = "truthy" THEN Truthy(value) ELSE value # None

RECURSIVE CopyAttrs(_, _, _)
CopyAttrs(js_group, group, n) ==
    IF n > Len(GroupAttrs) THEN js_group
    ELSE LET name == GroupAttrs[n][1]
             test == GroupAttrs[n][2]
         IN  CopyAttrs(IF AttrGuard(test, group[name])
                       THEN DictSet(js_group, name, group[name])
                       ELSE js_group,
                       group, n + 1)

\* lines 83-87: the dict of one stroke
ConvertStrokeDict(child) ==
    [type |-> child.stype, path |-> PyOr(child.svg, PyStr("")),
     numberPos |-> child.numberPos]

\* a mutant of AppendStroke: the stroke is put in front
PrependStroke(js_group, child) ==
    DictSet(js_group, "strokes",
            <<ConvertStrokeDict(child)>> \o js_group["strokes"])

\* line 83: js_group["strokes"].append({...})
AppendStroke(js_group, child) ==
    DictSet(js_group, "strokes",
            Append(js_group["strokes"], ConvertStrokeDict(child)))

\* line 81: js_group["groups"].append(<the converted child>)
AppendGroup(js_group, js_child) ==
    DictSet(js_group, "groups", Append(js_group["groups"], js_child))

RECURSIVE convert_stroke_group(_)
RECURSIVE ConvertChilds(_, _)
\* lines 79-87: the loop over group.childs
ConvertChilds(childs, js_group) ==
    IF childs = <<>> THEN js_group
    ELSE LET child == Head(childs)
         IN  ConvertChilds(Tail(childs),
                 IF HasChilds(child)
                 THEN AppendGroup(js_group, convert_stroke_group(child))
                 ELSE AppendStroke(js_group, child))

convert_stroke_group(group) ==
    ConvertChilds(group.childs, CopyAttrs(NewGroupDict(group), group, 1))

(***************************************************************************)
(* flatten_all_strokes (lines 91-106)                                      *)
(***************************************************************************)
\* lines 100-104: the dict of one stroke
FlattenStrokeDict(child) ==
    [type |-> child.stype, path |-> PyOr(child.svg, PyStr("")),
     numberPos |-> child.numberPos]

\* a mutant of ExtendStrokes: a sub-group's strokes are put after the
\* group's own direct strokes are collected, i.e. in front of the list
ExtendStrokesInFront(all_strokes, more) == more \o all_strokes

\* line 98: all_strokes.extend(...)
ExtendStrokes(all_strokes, more) == all_strokes \o more

RECURSIVE flatten_all_strokes(_)
RECURSIVE FlattenChilds(_, _)
\* lines 96-104: the loop over group.childs
FlattenChilds(childs, all_strokes) ==
    IF childs = <<>> THEN all_strokes
    ELSE LET child == Head(childs)
         IN  FlattenChilds(Tail(childs),
                 IF HasChilds(child)
                 THEN ExtendStrokes(all_strokes, flatten_all_strokes(child))
                 ELSE Append(all_strokes, FlattenStrokeDict(child)))

flatten_all_strokes(group) == FlattenChilds(group.childs, <<>>)

(***************************************************************************)
(* int(code, 16) and chr                                                   *)
(***************************************************************************)
Base == 16

\* the digits of KanjiVG codes, which are written in lower case
HexAlphabet ==
    <<"0", "1", "2", "3", "4", "5", "6", "7",
      "8", "9", "a", "b", "c", "d", "e", "f">>

IsHexChar(ch) == \E k \in 1..Base : HexAlphabet[k] = ch

HexValue(ch) == (CHOOSE k \in 1..Base : HexAlphabet[k] = ch) - 1

\* int(code, 16) raises ValueError on an empty string or a non-hex character
IntRaises(c) == c = <<>> \/ \E n \in 1..Len(c) : ~IsHexChar(c[n])

RECURSIVE IntBase16(_)
IntBase16(c) ==
    IF c = <<>> THEN 0
    ELSE Base * IntBase16(SubSeq(c, 1, Len(c) - 1)) + HexValue(c[Len(c)])

\* chr(n): the string of the one character whose scalar value is n
chr(n) == [t |-> "chr", v |-> n]

(***************************************************************************)
(* The inputs of the model: strokes, groups, trees, kanji and files.       *)
(***************************************************************************)
StrokeA == [stype |-> PyStr("a"), svg |-> PyStr("M1,1"),
            numberPos |-> [t |-> "tuple", v |-> <<1, 1>>]]

StrokeB == [stype |-> PyStr("b"), svg |-> None, numberPos |-> None]

\* an object with neither `childs` nor `stype`
BadStroke == [svg |-> None]

Strokes == {StrokeA, StrokeB}

AttrNames ==
    {"ID", "element", "original", "part", "number", "variant", "partial",
     "tradForm", "radicalForm", "position", "radical", "phon"}

\* the values an attribute is drawn from: absent, empty and non-empty
AttrValues(name) ==
    IF name \in {"part", "number"}
    THEN {None, PyInt(0), PyInt(2)}
    ELSE {None, PyStr(""), PyStr("x")}

AttrsAllNone == [name \in AttrNames |-> None]

AttrsFull ==
    [name \in AttrNames |->
        IF name \in {"part", "number"} THEN PyInt(2) ELSE PyStr("x")]

\* every attribute record that differs from AttrsAllNone or AttrsFull in at
\* most one attribute
AttrProfiles ==
    UNION {{[base EXCEPT ![name] = value] :
                base \in {AttrsAllNone, AttrsFull},
                value \in AttrValues(name)} :
           name \in AttrNames}

\* a StrokeGr object
StrokeGr(attrs, childs) ==
    [x \in AttrNames \cup {"childs"} |->
        IF x = "childs" THEN childs ELSE attrs[x]]

RECURSIVE ForestsOf(_, _)
\* the sequences of children that hold n nodes in all, groups taking their
\* attributes from the set profiles
ForestsOf(n, profiles) ==
    IF n = 0 THEN {<<>>}
    ELSE UNION {
            {<<first>> \o rest :
                first \in
                    (IF k = 1 THEN Strokes ELSE {}) \cup
                    {StrokeGr(a, f) :
                        a \in profiles, f \in ForestsOf(k - 1, profiles)},
                rest \in ForestsOf(n - k, profiles)} :
            k \in 1..n}

ForestsUpTo(n, profiles) == UNION {ForestsOf(k, profiles) : k \in 0..n}

CodeIchi == <<"0", "4", "e", "0", "0">>

CodeChou == <<"0", "4", "e", "0", "1">>

\* a code int(code, 16) cannot parse
CodeBad == <<"0", "4", "e", "0", "g">>

Kanji(c, variant, strokes) ==
    [code |-> c, variant |-> variant, strokes |-> strokes]

SvgFileInfo(ok, read, k) == [OK |-> ok, read |-> read, kanji |-> k]

\* trees of every shape, the groups with all attributes or none
ShapeInputs ==
    {SvgFileInfo(TRUE, "kanji",
                 Kanji(CodeIchi, None, StrokeGr(a, f))) :
        a \in {AttrsAllNone, AttrsFull},
        f \in ForestsUpTo(MaxNodes, {AttrsAllNone, AttrsFull})}

\* every attribute present and empty (or zero)
AttrsEmpty ==
    [name \in AttrNames |->
        IF name \in {"part", "number"} THEN PyInt(0) ELSE PyStr("")]

\* small trees, the attributes of the root varying one by one
AttrInputs ==
    {SvgFileInfo(TRUE, "kanji",
                 Kanji(CodeIchi, None, StrokeGr(a, f))) :
        a \in AttrProfiles,
        f \in ForestsUpTo(MaxAttrNodes, {AttrsEmpty, AttrsFull})}

\* the failures of a file: not OK, unreadable, a code or a tree that cannot
\* be converted
FileInputs ==
    {SvgFileInfo(ok, read, Kanji(c, variant, StrokeGr(AttrsAllNone, f))) :
        ok \in BOOLEAN, read \in {"kanji", "None", "raise"},
        c \in {CodeChou, CodeBad}, variant \in {None, PyStr("Kaisho")},
        f \in {<<StrokeA>>, <<StrokeA, BadStroke>>,
               <<StrokeGr(AttrsAllNone, <<BadStroke>>), StrokeB>>}}

ConvertInputs == ShapeInputs \cup AttrInputs \cup FileInputs

(***************************************************************************)
(* convert_svg_to_js_data (lines 18-44)                                    *)
(***************************************************************************)
\* a mutant of Handler: the statement is not covered by the try block
HandlerMissing == "raised"

\* lines 20, 42: an exception raised inside the try block goes to the
\* handler `except Exception`
Handler == "except"

\* lines 31-39 (and 163-169 of main): the record of one kanji
BuildJsData(k) ==
    [code |-> k.code,
     character |-> chr(IntBase16(k.code)),
     variant |-> k.variant,
     strokes |-> convert_stroke_group(k.strokes),
     all_strokes |-> flatten_all_strokes(k.strokes)]

\* building the record raises: int() on the code, or an attribute missing
\* on a child
BuildRaises(k) == IntRaises(k.code) \/ Raises(k.strokes)

\* lines 22-24
CheckOK ==
    /\ cpc = "try"
    /\ IF sfi.OK
       THEN cpc' = "read" /\ UNCHANGED result
       ELSE cpc' = "returned" /\ result' = None
    /\ UNCHANGED <<sfi, kanji>>
    /\ UNCHANGED <<rangeVars, mainVars>>

\* lines 26-28
ReadFile ==
    /\ cpc = "read"
    /\ CASE sfi.read = "raise" ->
              cpc' = Handler /\ UNCHANGED <<kanji, result>>
         [] sfi.read = "None" ->
              cpc' = "returned" /\ kanji' = None /\ result' = None
         [] OTHER ->
              cpc' = "build" /\ kanji' = sfi.kanji /\ UNCHANGED result
    /\ UNCHANGED sfi
    /\ UNCHANGED <<rangeVars, mainVars>>

\* lines 31-41
BuildAndReturn ==
    /\ cpc = "build"
    /\ IF BuildRaises(kanji)
       THEN cpc' = Handler /\ UNCHANGED result
       ELSE cpc' = "returned" /\ result' = BuildJsData(kanji)
    /\ UNCHANGED <<sfi, kanji>>
    /\ UNCHANGED <<rangeVars, mainVars>>

\* lines 42-44
Except ==
    /\ cpc = "except"
    /\ cpc' = "returned"
    /\ result' = None
    /\ UNCHANGED <<sfi, kanji>>
    /\ UNCHANGED <<rangeVars, mainVars>>

IdleConvert == cpc = "idle" /\ sfi = None /\ kanji = None /\ result = None

IdleRange == rpc = "idle" /\ code = <<>> /\ range = ""

IdleMain ==
    /\ pc = "idle"
    /\ svg_files = <<>>
    /\ kanji_data = EmptyDict
    /\ character_index = EmptyDict
    /\ individual_dir = EmptyDict
    /\ lookup_index = EmptyDict
    /\ output_dir = EmptyDict

InitConvert ==
    /\ cpc = "try"
    /\ sfi \in ConvertInputs
    /\ kanji = None
    /\ result = None
    /\ IdleRange
    /\ IdleMain

NextConvert == CheckOK \/ ReadFile \/ BuildAndReturn \/ Except

SpecConvert == InitConvert /\ [][NextConvert]_vars

(***************************************************************************)
(* Properties of convert_stroke_group, flatten_all_strokes and             *)
(* convert_svg_to_js_data, checked under SpecConvert.                      *)
(***************************************************************************)
\* the call returned a record
Converted == cpc = "returned" /\ result # None

\* the root group of the file's kanji
Root == sfi.kanji.strokes

IsStroke(child) == ~HasChilds(child)

IsGroup(child) == HasChilds(child)

RECURSIVE LeafPaths(_)
\* the positions of the stroke leaves of a tree, each the sequence of child
\* indices that leads from the root to the leaf
LeafPaths(group) ==
    UNION {IF HasChilds(group.childs[n])
           THEN {<<n>> \o p : p \in LeafPaths(group.childs[n])}
           ELSE {<<n>>} :
           n \in 1..Len(group.childs)}

RECURSIVE NodeAt(_, _)
NodeAt(group, path) ==
    IF Len(path) = 1 THEN group.childs[path[1]]
    ELSE NodeAt(group.childs[path[1]], Tail(path))

RECURSIVE Before(_, _)
\* p is visited before q in a pre-order, left-to-right walk
Before(p, q) ==
    \/ p[1] < q[1]
    \/ /\ p[1] = q[1]
       /\ Len(p) > 1
       /\ Len(q) > 1
       /\ Before(Tail(p), Tail(q))

\* the place of p among paths, counted from 1
Position(paths, p) == Cardinality({q \in paths : Before(q, p)}) + 1

\* the StrokeRecord of a stroke: type, path ("" when absent), numberPos
ExpectedStroke(stroke) ==
    [type |-> stroke.stype,
     path |-> IF stroke.svg = None THEN PyStr("") ELSE stroke.svg,
     numberPos |-> stroke.numberPos]

\* C3: flatten_all_strokes yields the stroke leaves of the tree in pre-order,
\* left-to-right, depth-first order, each leaf exactly once, so its length is
\* the number of stroke leaves.
C3_FlattenIsPreOrder ==
    Converted =>
        LET paths == LeafPaths(Root)
            all   == result["all_strokes"]
        IN  /\ Len(all) = Cardinality(paths)
            /\ \A p \in paths :
                   all[Position(paths, p)] = ExpectedStroke(NodeAt(Root, p))

\* C3 witness: a root with one sub-group holding stroke b, followed by the
\* direct stroke a, was flattened to [b, a].
C3_Witness ==
    /\ Converted
    /\ Root.childs = <<StrokeGr(AttrsAllNone, <<StrokeB>>), StrokeA>>
    /\ result["all_strokes"] =
           <<ExpectedStroke(StrokeB), ExpectedStroke(StrokeA)>>

RECURSIVE GroupMatches(_, _)
\* js holds the direct strokes of group in source order, and the conversions
\* of its group children in source order
GroupMatches(group, js) ==
    LET direct == SelectSeq(group.childs, IsStroke)
        nested == SelectSeq(group.childs, IsGroup)
    IN  /\ Len(js["strokes"]) = Len(direct)
        /\ \A k \in 1..Len(direct) :
               js["strokes"][k] = ExpectedStroke(direct[k])
        /\ Len(js["groups"]) = Len(nested)
        /\ \A k \in 1..Len(nested) : GroupMatches(nested[k], js["groups"][k])

\* C4: for every group of the tree, "strokes" is the sequence of its direct
\* stroke children and "groups" the sequence of its converted group children,
\* both in source order; the root's direct strokes are the depth-0 strokes of
\* the flattened list, in the same relative order.
C4_ConvertKeepsDirectChildren ==
    Converted =>
        LET paths  == LeafPaths(Root)
            depth0 == {p \in paths : Len(p) = 1}
            js     == result["strokes"]
        IN  /\ GroupMatches(Root, js)
            /\ Len(js["strokes"]) = Cardinality(depth0)
            /\ \A p \in depth0 :
                   js["strokes"][Position(depth0, p)] =
                       result["all_strokes"][Position(paths, p)]

\* C4 witness: a root whose children are stroke a, a sub-group with stroke b,
\* and stroke b: two direct strokes, one group, three flattened strokes.
C4_Witness ==
    /\ Converted
    /\ Root.childs =
           <<StrokeA, StrokeGr(AttrsAllNone, <<StrokeB>>), StrokeB>>
    /\ result["strokes"]["strokes"] =
           <<ExpectedStroke(StrokeA), ExpectedStroke(StrokeB)>>
    /\ Len(result["strokes"]["groups"]) = 1
    /\ Len(result["all_strokes"]) = 3

\* the optional fields of a GroupRecord, each with the attribute it mirrors
OptionalFields ==
    {<<"id", "ID">>} \cup
    {<<GroupAttrs[n][1], GroupAttrs[n][1]>> : n \in 1..Len(GroupAttrs)}

\* a source value that is present and not empty
PresentNonEmpty(value) == value # None /\ value # PyStr("")

\* every optional field that is emitted has a present, non-empty source value
OnlyNonEmptyEmitted(group, js) ==
    \A f \in OptionalFields :
        f[1] \in DOMAIN js =>
            PresentNonEmpty(group[f[2]]) /\ js[f[1]] = group[f[2]]

RECURSIVE EveryGroupOnlyNonEmpty(_, _)
\* OnlyNonEmptyEmitted holds of the group and of every group below it
EveryGroupOnlyNonEmpty(group, js) ==
    LET nested == SelectSeq(group.childs, IsGroup)
    IN  /\ OnlyNonEmptyEmitted(group, js)
        /\ \A k \in 1..Len(nested) :
               EveryGroupOnlyNonEmpty(nested[k], js["groups"][k])

EmittedAsCoded(group, js) ==
    /\ DOMAIN js \subseteq
           {"id", "groups", "strokes"} \cup {f[1] : f \in OptionalFields}
    /\ "id" \in DOMAIN js
    /\ js["id"] = IF PresentNonEmpty(group["ID"]) THEN group["ID"]
                  ELSE PyStr("")
    /\ \A name \in {"part", "number"} :
           /\ name \in DOMAIN js <=> group[name] # None
           /\ name \in DOMAIN js => js[name] = group[name]
    /\ \A f \in OptionalFields :
           f[1] \notin {"id", "part", "number"} =>
               /\ f[1] \in DOMAIN js <=>
                      group[f[2]] \notin {None, PyStr(""), PyInt(0)}
               /\ f[1] \in DOMAIN js => js[f[1]] = group[f[2]]

RECURSIVE EveryGroupAsCoded(_, _)
\* EmittedAsCoded holds of the group and of every group below it
EveryGroupAsCoded(group, js) ==
    LET nested == SelectSeq(group.childs, IsGroup)
    IN  /\ EmittedAsCoded(group, js)
        /\ \A k \in 1..Len(nested) :
               EveryGroupAsCoded(nested[k], js["groups"][k])

C9_ConvertSvgNeverRaises ==
    /\ cpc \in {"try", "read", "build", "except", "returned"}
    /\ cpc = "returned" =>
           IF sfi.OK /\ sfi.read = "kanji" /\ ~BuildRaises(sfi.kanji)
           THEN /\ DOMAIN result =
                       {"code", "character", "variant", "strokes",
                        "all_strokes"}
                /\ result["code"] = sfi.kanji.code
                /\ result["variant"] = sfi.kanji.variant
                /\ result["strokes"] = convert_stroke_group(Root)
                /\ result["all_strokes"] = flatten_all_strokes(Root)
           ELSE result = None

\* C9 witness: the file was OK and read, a child of its tree lacked the
\* stroke attributes, and the call returned None.
C9_Witness ==
    /\ cpc = "returned"
    /\ sfi.OK
    /\ sfi.read = "kanji"
    /\ Raises(Root)
    /\ result = None

(***************************************************************************)
(* get_unicode_range (lines 108-127)                                       *)
(***************************************************************************)
\* a mutant of Between: the upper bound is exclusive
BetweenExclusive(lo, x, hi) == lo <= x /\ x < hi

\* the chained comparison  lo <= x <= hi
Between(lo, x, hi) == lo <= x /\ x <= hi

get_unicode_range(c) ==
    LET code_point == IntBase16(c)
    IN  IF Between(19968, code_point, 40959) THEN "basic"              \* 0x4E00, 0x9FFF
        ELSE IF Between(13312, code_point, 19903) THEN "extended-a"    \* 0x3400, 0x4DBF
        ELSE IF Between(131072, code_point, 173791) THEN "extended-b"  \* 0x20000, 0x2A6DF
        ELSE IF Between(173824, code_point, 177983) THEN "extended-c"  \* 0x2A700, 0x2B73F
        ELSE IF Between(177984, code_point, 178207) THEN "extended-d"  \* 0x2B740, 0x2B81F
        ELSE IF Between(178208, code_point, 183983) THEN "extended-e"  \* 0x2B820, 0x2CEAF
        ELSE IF Between(63744, code_point, 64255) THEN "compatibility" \* 0xF900, 0xFAFF
        ELSE "other"

\* the call of get_unicode_range(code)
Classify ==
    /\ rpc = "call"
    /\ rpc' = "returned"
    /\ range' = get_unicode_range(code)
    /\ UNCHANGED code
    /\ UNCHANGED <<convertVars, mainVars>>

\* every code of six hex digits whose two leading digits are at most MaxPlane
InitRange ==
    /\ rpc = "call"
    /\ \E plane \in 0..MaxPlane :
       \E a \in 1..Base, b \in 1..Base, c \in 1..Base, d \in 1..Base :
           code = <<HexAlphabet[(plane \div Base) + 1],
                    HexAlphabet[(plane % Base) + 1],
                    HexAlphabet[a], HexAlphabet[b],
                    HexAlphabet[c], HexAlphabet[d]>>
    /\ range = ""
    /\ IdleConvert
    /\ IdleMain

NextRange == Classify

SpecRange == InitRange /\ [][NextRange]_vars

\* the named ranges of the classification, each with its two inclusive bounds
NamedRanges ==
    [tag \in {"basic", "extended-a", "extended-b", "extended-c",
              "extended-d", "extended-e", "compatibility"} |->
        CASE tag = "basic"         -> <<19968, 40959>>
          [] tag = "extended-a"    -> <<13312, 19903>>
          [] tag = "extended-b"    -> <<131072, 173791>>
          [] tag = "extended-c"    -> <<173824, 177983>>
          [] tag = "extended-d"    -> <<177984, 178207>>
          [] tag = "extended-e"    -> <<178208, 183983>>
          [] tag = "compatibility" -> <<63744, 64255>>]

\* the named ranges that hold the code point n
RangesOf(n) ==
    {tag \in DOMAIN NamedRanges :
        NamedRanges[tag][1] <= n /\ n <= NamedRanges[tag][2]}

\* C6: get_unicode_range returns exactly one tag of the closed set; a code
\* point lies in at most one named range, is tagged with that range when it
\* lies in one (both bounds included), and with other when it lies in none.
C6_RangeIsAPartition ==
    rpc = "returned" =>
        LET n == IntBase16(code)
        IN  /\ range \in DOMAIN NamedRanges \cup {"other"}
            /\ Cardinality(RangesOf(n)) <= 1
            /\ \A tag \in RangesOf(n) : range = tag
            /\ RangesOf(n) = {} => range = "other"

\* C6 witness: the code 09fff, the upper bound of basic, was tagged basic.
C6_Witness ==
    /\ rpc = "returned"
    /\ code = <<"0", "0", "9", "f", "f", "f">>
    /\ range = "basic"

(***************************************************************************)
(* main (lines 129-223)                                                    *)
(***************************************************************************)
\* Kanji.kId(): the code and, when the kanji has a variant, "-" and the
\* variant.  A string is the sequence of its pieces, concatenated with \o.
kId(k) ==
    k.code \o (IF Truthy(k.variant) THEN <<"-", k.variant.v>> ELSE <<>>)

TreeOne == StrokeGr(AttrsAllNone, <<StrokeA>>)

TreeTwo == StrokeGr(AttrsFull, <<StrokeGr(AttrsAllNone, <<StrokeB>>), StrokeA>>)

TreeBad == StrokeGr(AttrsAllNone, <<BadStroke>>)

\* one entry of svg_files: what sfi.read() does, the kanji it yields, and
\* whether writing the kanji's individual file succeeds
Entry(read, k, write) == [read |-> read, kanji |-> k, write |-> write]

\* the entries the loop may meet
Entries ==
    {Entry(read, None, "ok") : read \in {"None", "raise"}}
    \cup
    {Entry("kanji", Kanji(kv[1], kv[2], tree), write) :
        kv \in {<<CodeIchi, None>>, <<CodeChou, None>>,
                <<CodeChou, PyStr("Kaisho")>>},
        tree \in {TreeOne, TreeTwo},
        write \in {"ok", "raise"}}
    \cup
    {Entry("kanji", Kanji(CodeIchi, None, TreeBad), "ok"),
     Entry("kanji", Kanji(CodeBad, None, TreeOne), "ok")}

\* a mutant of AppendVariantKey: the character's list is started again
AppendVariantKeyReset(index, character, variant_key) ==
    DictSet(index, character, <<variant_key>>)

\* lines 180-182
AppendVariantKey(index, character, variant_key) ==
    LET started == IF character \notin DOMAIN index
                   THEN DictSet(index, character, <<>>)
                   ELSE index
    IN  DictSet(started, character, Append(started[character], variant_key))

\* line 190: f"individual/{variant_key}.json"
IndividualPath(variant_key) == <<"individual/">> \o variant_key \o <<".json">>

\* lines 139-153: the directories are made, kvg-index.json is loaded and the
\* directory is listed; a missing or invalid index file, or an unreadable
\* directory, ends the run
Start ==
    /\ pc = "start"
    /\ \E loaded \in BOOLEAN : pc' = IF loaded THEN "loop" ELSE "fatal"
    /\ UNCHANGED <<svg_files, kanji_data, character_index, individual_dir,
                   lookup_index, output_dir>>
    /\ UNCHANGED <<convertVars, rangeVars>>

\* lines 156-185: one iteration of the loop, on the next entry of svg_files
ProcessFile ==
    /\ pc = "loop"
    /\ Len(svg_files) < MaxFiles
    /\ \E entry \in Entries :
        /\ svg_files' = Append(svg_files, entry)
        /\ IF entry.read = "kanji" /\ ~BuildRaises(entry.kanji)
           THEN LET js_data     == BuildJsData(entry.kanji)
                    variant_key == kId(entry.kanji)
                IN  /\ kanji_data' = DictSet(kanji_data, variant_key, js_data)
                    /\ IF entry.write = "ok"
                       THEN /\ individual_dir' =
                                   DictSet(individual_dir, variant_key, js_data)
                            /\ character_index' =
                                   AppendVariantKey(character_index,
                                       chr(IntBase16(entry.kanji.code)),
                                       variant_key)
                       ELSE UNCHANGED <<individual_dir, character_index>>
           ELSE UNCHANGED <<kanji_data, individual_dir, character_index>>
    /\ UNCHANGED <<pc, lookup_index, output_dir>>
    /\ UNCHANGED <<convertVars, rangeVars>>

\* lines 187-199: after the last file the lookup index is built and the two
\* index files are written, lookup-index.json first; a failed write ends
\* the run
SaveIndexes ==
    /\ pc = "loop"
    /\ lookup_index' =
           [variant_key \in DOMAIN kanji_data |-> IndividualPath(variant_key)]
    /\ \E written \in 0..2 :
        /\ output_dir' =
               [name \in (IF written >= 1 THEN {"lookup-index.json"} ELSE {})
                    \cup (IF written >= 2 THEN {"kanjivg-index.json"} ELSE {})
                |-> IF name = "lookup-index.json" THEN lookup_index'
                    ELSE character_index]
        /\ pc' = IF written = 2 THEN "report" ELSE "fatal"
    /\ UNCHANGED <<svg_files, kanji_data, character_index, individual_dir>>
    /\ UNCHANGED <<convertVars, rangeVars>>

\* lines 201-223: the report; line 223 divides by min(10, len(kanji_data))
Report ==
    /\ pc = "report"
    /\ LET size    == Cardinality(DOMAIN kanji_data)
           divisor == IF size < 10 THEN size ELSE 10
       IN  pc' = IF divisor = 0 THEN "crashed" ELSE "done"
    /\ UNCHANGED <<svg_files, kanji_data, character_index, individual_dir,
                   lookup_index, output_dir>>
    /\ UNCHANGED <<convertVars, rangeVars>>

InitMain ==
    /\ pc = "start"
    /\ svg_files = <<>>
    /\ kanji_data = EmptyDict
    /\ character_index = EmptyDict
    /\ individual_dir = EmptyDict
    /\ lookup_index = EmptyDict
    /\ output_dir = EmptyDict
    /\ IdleConvert
    /\ IdleRange

NextMain == Start \/ ProcessFile \/ SaveIndexes \/ Report

SpecMain == InitMain /\ [][NextMain]_vars

(***************************************************************************)
(* Properties of main, checked under SpecMain.                             *)
(***************************************************************************)
\* the entry was read and converted: the loop reached line 170 with it
Produced(entry) == entry.read = "kanji" /\ ~BuildRaises(entry.kanji)

\* the entry went through the whole loop body
Processed(entry) == Produced(entry) /\ entry.write = "ok"

\* reading or converting the entry failed
Failed(entry) == ~Produced(entry)

CharacterOf(entry) == chr(IntBase16(entry.kanji.code))

Elements(list) == {list[n] : n \in 1..Len(list)}

Occurrences(list, x) == Cardinality({n \in 1..Len(list) : list[n] = x})

\* the variant keys that occur in the lists of character_index
IndexedKeys ==
    UNION {Elements(character_index[c]) : c \in DOMAIN character_index}

\* C1: at the end of main, the VariantKey of every record produced (read,
\* converted and written) is a key of lookup_index and occurs exactly once
\* in character_index[character], also when two diagrams yield the same
\* VariantKey.
C1_KeyIndexedExactlyOnce ==
    pc = "done" =>
        \A n \in 1..Len(svg_files) :
            Processed(svg_files[n]) =>
                LET variant_key == kId(svg_files[n].kanji)
                    character   == CharacterOf(svg_files[n])
                IN  /\ variant_key \in DOMAIN lookup_index
                    /\ character \in DOMAIN character_index
                    /\ Occurrences(character_index[character], variant_key) = 1

\* two entries that were both read and converted have the same VariantKey
DuplicateKeyMet ==
    \E m \in 1..Len(svg_files), n \in 1..Len(svg_files) :
        /\ m < n
        /\ Produced(svg_files[m])
        /\ Produced(svg_files[n])
        /\ kId(svg_files[m].kanji) = kId(svg_files[n].kanji)

\* C2: once a diagram with the VariantKey of an earlier diagram is met, the
\* run is aborted: it neither goes on nor finishes normally.
C2_DuplicateKeyIsFatal == DuplicateKeyMet => pc = "fatal"

\* C7: a file whose reading or conversion fails is skipped and the run goes
\* on to normal completion; the failed files add nothing to kanji_data, to
\* the individual files or to character_index, and every other file's key
\* is in all of them.
C7_FailedFileIsSkipped ==
    LET produced  == {n \in 1..Len(svg_files) : Produced(svg_files[n])}
        processed == {n \in 1..Len(svg_files) : Processed(svg_files[n])}
        failed    == {n \in 1..Len(svg_files) : Failed(svg_files[n])}
    IN  /\ DOMAIN kanji_data = {kId(svg_files[n].kanji) : n \in produced}
        /\ DOMAIN individual_dir = {kId(svg_files[n].kanji) : n \in processed}
        /\ IndexedKeys = {kId(svg_files[n].kanji) : n \in processed}
        /\ pc \in {"report", "done", "crashed"} =>
               DOMAIN lookup_index = DOMAIN kanji_data
        /\ failed # {} => pc # "crashed"

\* the keys of the processed entries of one character, in processing order
KeysOfCharacter(character) ==
    LET OfCharacter(entry) ==
            Processed(entry) /\ CharacterOf(entry) = character
        chosen == SelectSeq(svg_files, OfCharacter)
    IN  [n \in 1..Len(chosen) |-> kId(chosen[n].kanji)]

\* C8: character_index[character] lists the VariantKeys of the processed
\* diagrams of that character in processing order; a character has an entry
\* exactly when a diagram of it was processed; two processed diagrams with
\* the same code and distinct variants have distinct VariantKeys, both in
\* the character's list.
C8_CharacterIndexInProcessingOrder ==
    LET processed == {n \in 1..Len(svg_files) : Processed(svg_files[n])}
    IN  /\ DOMAIN character_index = {CharacterOf(svg_files[n]) : n \in processed}
        /\ \A character \in DOMAIN character_index :
               character_index[character] = KeysOfCharacter(character)
        /\ \A m \in processed, n \in processed :
               /\ svg_files[m].kanji.code = svg_files[n].kanji.code
               /\ svg_files[m].kanji.variant # svg_files[n].kanji.variant
               => /\ kId(svg_files[m].kanji) # kId(svg_files[n].kanji)
                  /\ {kId(svg_files[m].kanji), kId(svg_files[n].kanji)}
                         \subseteq
                         Elements(character_index[CharacterOf(svg_files[m])])

\* C8 witness: 04e01 without variant and then 04e01 with variant Kaisho were
\* processed, and both keys are listed under the character in that order.
C8_Witness ==
    /\ Len(svg_files) = 2
    /\ Processed(svg_files[1])
    /\ Processed(svg_files[2])
    /\ svg_files[1].kanji.code = CodeChou
    /\ svg_files[1].kanji.variant = None
    /\ svg_files[2].kanji.code = CodeChou
    /\ svg_files[2].kanji.variant = PyStr("Kaisho")
    /\ character_index[chr(19969)] =
           <<CodeChou, CodeChou \o <<"-", "Kaisho">> >>

\* C10: at the end of main the keys of lookup_index are the VariantKeys that
\* occur in the lists of character_index, whatever the outcome of each file.
C10_IndexesHoldTheSameKeys ==
    pc = "done" => DOMAIN lookup_index = IndexedKeys

====
